---- MODULE Spec2Model ----
(***************************************************************************)
(* A model of backend/main.py: a FastAPI application with three handlers   *)
(* (encode_image, encode_text, compute_similarity) around one globally     *)
(* loaded open_clip model.                                                 *)
(*                                                                         *)
(* Numbers.  Tensors are kept exact and symbolic instead of in floating    *)
(* point.  A tensor row is a record [num |-> v, den2 |-> d] that stands for*)
(* the real vector v / sqrt(d); den2 = 0 stands for a row of NaN (0/0).    *)
(* A logit [dot |-> n, den2 |-> d] stands for n / sqrt(d), and a softmax   *)
(* entry [num |-> l, den |-> ls, nan |-> b] for exp(l) / SUM exp(ls[k]).   *)
(*                                                                         *)
(* Scheduling.  The handlers are coroutines on one asyncio event loop:     *)
(* `running` is the task that holds the loop, and only an `await` gives    *)
(* it up.                                                                  *)
(***************************************************************************)
EXTENDS Integers, Sequences, FiniteSets, Bags, TLC

\* ------------------------------------------------------------------ bounds

\* The longest text_list a request carries.
MaxList == 2

\* The request tasks the event loop may hold at once.
Tasks == {"t1", "t2"}

NoTask == "none"

\* The strings a text_list is drawn from.
Labels == {"a", "b"}

\* The uploaded blobs: two image files and one blob that is no image.
Uploads == {"png_a", "png_b", "not_an_image"}

RECURSIVE SeqsUpTo(_, _)
SeqsUpTo(S, n) ==
    IF n = 0 THEN {<<>>}
    ELSE LET shorter == SeqsUpTo(S, n - 1)
         IN  shorter \cup {Append(s, x) : s \in shorter, x \in S}

TextLists == SeqsUpTo(Labels, MaxList)

\* ------------------------------------------------------- JSON text (tokens)

P(c) == [k |-> "p", v |-> c]
S(c) == [k |-> "s", v |-> c]
N(c) == [k |-> "n", v |-> c]

IsP(tok, c) == tok.k = "p" /\ tok.v = c

RECURSIVE ItemTokens(_, _)
ItemTokens(list, i) ==
    IF i > Len(list) THEN <<>>
    ELSE (IF i > 1 THEN <<P(",")>> ELSE <<>>) \o <<S(list[i])>> \o ItemTokens(list, i + 1)

\* What a client sends for a text_list: {"text_list": ["a", "b"]}.
Stringify(list) ==
    <<P("{"), S("text_list"), P(":"), P("[")>> \o ItemTokens(list, 1) \o <<P("]"), P("}")>>

\* {"text_list": ["a"     (cut short: no JSON document)
TruncatedJson == SubSeq(Stringify(<<"a">>), 1, 5)
\* ["a"]                  (JSON, but no object)
NotAnObject == <<P("["), S("a"), P("]")>>
\* {"texts": ["a"]}       (an object without the field)
MissingField == <<P("{"), S("texts"), P(":"), P("["), S("a"), P("]"), P("}")>>
\* {"text_list": "a"}     (the field is no list)
FieldNotAList == <<P("{"), S("text_list"), P(":"), S("a"), P("}")>>
\* {"text_list": ["a", 1]} (an element is no string)
ItemNotAString ==
    <<P("{"), S("text_list"), P(":"), P("["), S("a"), P(","), N("1"), P("]"), P("}")>>

Malformed == {TruncatedJson, NotAnObject, MissingField, FieldNotAList, ItemNotAString}

Payloads == {Stringify(l) : l \in TextLists} \cup Malformed

\* ------------------------------------------------------------ json.loads

Fail == [ok |-> FALSE, val |-> [t |-> "none"], pos |-> 0]
Parsed(v, p) == [ok |-> TRUE, val |-> v, pos |-> p]

RECURSIVE ParseValue(_, _), ParseElements(_, _, _), ParseMembers(_, _, _, _)

\* value := string | number | '[' elements ']' | '{' members '}'
ParseValue(toks, i) ==
    IF i > Len(toks) THEN Fail
    ELSE LET tok == toks[i] IN
         IF tok.k = "s" THEN Parsed([t |-> "str", s |-> tok.v], i + 1)
         ELSE IF tok.k = "n" THEN Parsed([t |-> "num", n |-> tok.v], i + 1)
         ELSE IF tok.v = "[" THEN
              IF i + 1 <= Len(toks) /\ IsP(toks[i + 1], "]")
              THEN Parsed([t |-> "list", items |-> <<>>], i + 2)
              ELSE ParseElements(toks, i + 1, <<>>)
         ELSE IF tok.v = "{" THEN
              IF i + 1 <= Len(toks) /\ IsP(toks[i + 1], "}")
              THEN Parsed([t |-> "dict", keys |-> <<>>, vals |-> <<>>], i + 2)
              ELSE ParseMembers(toks, i + 1, <<>>, <<>>)
         ELSE Fail

\* elements := value (',' value)* ']'
ParseElements(toks, i, acc) ==
    LET r == ParseValue(toks, i) IN
    IF ~r.ok \/ r.pos > Len(toks) THEN Fail
    ELSE IF IsP(toks[r.pos], ",") THEN ParseElements(toks, r.pos + 1, Append(acc, r.val))
    ELSE IF IsP(toks[r.pos], "]")
         THEN Parsed([t |-> "list", items |-> Append(acc, r.val)], r.pos + 1)
    ELSE Fail

\* members := string ':' value (',' string ':' value)* '}'
ParseMembers(toks, i, ks, vs) ==
    IF i + 1 > Len(toks) \/ toks[i].k # "s" \/ ~IsP(toks[i + 1], ":") THEN Fail
    ELSE LET r == ParseValue(toks, i + 2) IN
         IF ~r.ok \/ r.pos > Len(toks) THEN Fail
         ELSE IF IsP(toks[r.pos], ",")
              THEN ParseMembers(toks, r.pos + 1, Append(ks, toks[i].v), Append(vs, r.val))
         ELSE IF IsP(toks[r.pos], "}")
              THEN Parsed([t |-> "dict", keys |-> Append(ks, toks[i].v),
                           vals |-> Append(vs, r.val)], r.pos + 1)
         ELSE Fail

\* json.loads(text): the document, or a JSONDecodeError (ok = FALSE); data after
\* the document is an error too.
JsonLoads(toks) ==
    LET r == ParseValue(toks, 1) IN
    IF r.ok /\ r.pos = Len(toks) + 1 THEN [ok |-> TRUE, val |-> r.val]
    ELSE [ok |-> FALSE, val |-> [t |-> "none"]]

\* ------------------------------------------------- TextInput (pydantic model)

\* The position of the field text_list among an object's keys, 0 when absent.
RECURSIVE FieldIndex(_, _)
FieldIndex(keys, i) ==
    IF i = 0 THEN 0
    ELSE IF keys[i] = "text_list" THEN i
    ELSE FieldIndex(keys, i - 1)

RECURSIVE StringsOf(_, _)
StringsOf(items, i) ==
    IF i > Len(items) THEN <<>> ELSE <<items[i].s>> \o StringsOf(items, i + 1)

\* A faulty variant of TextInput: every element is taken as it comes, a number for a string.
TextInputUnchecked(val) ==
    IF val.t # "dict" THEN [ok |-> FALSE, text_list |-> <<>>]
    ELSE LET i == FieldIndex(val.keys, Len(val.keys)) IN
         IF i = 0 THEN [ok |-> FALSE, text_list |-> <<>>]
         ELSE IF val.vals[i].t # "list" THEN [ok |-> FALSE, text_list |-> <<>>]
         ELSE [ok |-> TRUE,
               text_list |-> [k \in 1..Len(val.vals[i].items) |->
                                 IF val.vals[i].items[k].t = "str"
                                 THEN val.vals[i].items[k].s
                                 ELSE val.vals[i].items[k].n]]

\* TextInput(**val), and FastAPI's validation of a body against TextInput:
\* text_list: List[str].  ok = FALSE is the TypeError or ValidationError.
TextInput(val) ==
    IF val.t # "dict" THEN [ok |-> FALSE, text_list |-> <<>>]
    ELSE LET i == FieldIndex(val.keys, Len(val.keys)) IN
         IF i = 0 THEN [ok |-> FALSE, text_list |-> <<>>]
         ELSE IF val.vals[i].t # "list" THEN [ok |-> FALSE, text_list |-> <<>>]
         ELSE IF \E k \in 1..Len(val.vals[i].items) : val.vals[i].items[k].t # "str"
              THEN [ok |-> FALSE, text_list |-> <<>>]
         ELSE [ok |-> TRUE, text_list |-> StringsOf(val.vals[i].items, 1)]

\* ------------------------------------------------------- PIL and transforms

\* Image.open(io.BytesIO(image_data)): the image, or UnidentifiedImageError.
ImageOpen(image_data) ==
    IF image_data = "png_a" THEN [ok |-> TRUE, image |-> "A"]
    ELSE IF image_data = "png_b" THEN [ok |-> TRUE, image |-> "B"]
    ELSE [ok |-> FALSE, image |-> ""]

\* preprocess_val(image).unsqueeze(0): a batch of one pixel tensor.
PreprocessVal(image) == <<"px_" \o image>>

\* ---------------------------------------------------- tokenizer and model

\* The tokenizers get_tokenizer may hand back: an empty batch is either
\* tokenized to an empty tensor or refused with an exception.
Tokenizers == {"accepts_empty_batch", "rejects_empty_batch"}

TokenIds(s) == IF s = "a" THEN <<11, 1>> ELSE IF s = "b" THEN <<12, 1>> ELSE <<99, 1>>

\* A faulty variant of Tokenizer: only the first string of the list is tokenized.
TokenizerFirstOnly(tok, text_list) ==
    IF text_list = <<>> /\ tok = "rejects_empty_batch" THEN [ok |-> FALSE, text |-> <<>>]
    ELSE [ok |-> TRUE,
          text |-> IF text_list = <<>> THEN <<>> ELSE <<TokenIds(text_list[1])>>]

\* tokenizer(text_list): one row of token ids per string, in order.
Tokenizer(tok, text_list) ==
    IF text_list = <<>> /\ tok = "rejects_empty_batch" THEN [ok |-> FALSE, text |-> <<>>]
    ELSE [ok |-> TRUE, text |-> [i \in 1..Len(text_list) |-> TokenIds(text_list[i])]]

\* The checkpoints create_model_and_transforms may load.  The embeddings of a
\* pretrained checkpoint are not fixed by this repository: "w1" has regular
\* embeddings, "w2" also degenerate (all-zero) ones.
Weights == {"w1", "w2"}

ImageEmbedding(m, px) ==
    IF m = "w1" THEN (IF px = "px_A" THEN <<3, 4>> ELSE <<1, 2>>)
    ELSE (IF px = "px_A" THEN <<1, 1>> ELSE <<0, 0>>)

TextEmbedding(m, ids) ==
    IF m = "w1" THEN (IF ids[1] = 11 THEN <<4, 3>> ELSE <<2, 1>>)
    ELSE (IF ids[1] = 11 THEN <<2, 0>> ELSE <<0, 0>>)

\* A tensor row as the model returns it: the vector itself.
Raw(v) == [num |-> v, den2 |-> 1]

\* model.encode_image(batch): one row per image.
ModelEncodeImage(m, batch) == [i \in 1..Len(batch) |-> Raw(ImageEmbedding(m, batch[i]))]

\* model.encode_text(text): one row per row of token ids.
ModelEncodeText(m, text) == [i \in 1..Len(text) |-> Raw(TextEmbedding(m, text[i]))]

\* ------------------------------------------------------------ tensor algebra

RECURSIVE Dot(_, _)
Dot(u, v) == IF u = <<>> THEN 0 ELSE Head(u) * Head(v) + Dot(Tail(u), Tail(v))

SumSq(v) == Dot(v, v)

NaNRow(row) == [num |-> row.num, den2 |-> 0]

\* row / nrm, for nrm = sqrt(n2) a norm of raw rows; 0/0 and NaN/x are NaN.
DivideRow(row, n2) ==
    IF row.den2 = 0 \/ n2 = 0 THEN NaNRow(row) ELSE [num |-> row.num, den2 |-> row.den2 * n2]

\* The square of x.norm(dim=-1, keepdim=True) at row i: the row's own norm.
RowNorm2(x, i) == SumSq(x[i].num)

RECURSIVE SumRowNorm2(_, _)
SumRowNorm2(x, i) == IF i = 0 THEN 0 ELSE RowNorm2(x, i) + SumRowNorm2(x, i - 1)

\* A faulty variant of Normalize: x / x.norm(), the norm of the whole tensor.
NormalizeWholeTensor(x) == [i \in 1..Len(x) |-> DivideRow(x[i], SumRowNorm2(x, Len(x)))]

\* A faulty variant of Normalize: the features are left as the model returned them.
NormalizeSkipped(x) == x

\* x / x.norm(dim=-1, keepdim=True)
Normalize(x) == [i \in 1..Len(x) |-> DivideRow(x[i], RowNorm2(x, i))]

IsNaNRow(row) == row.den2 = 0

\* The row has L2 norm 1: (num . num) / den2 = 1.
IsUnit(row) == row.den2 > 0 /\ SumSq(row.num) = row.den2

\* 100.0 * a @ b.T for one row a and one row b.
Logit(a, b) == [dot |-> 100 * Dot(a.num, b.num), den2 |-> a.den2 * b.den2]

\* 100.0 * image_features @ text_features.T: one row per image, one column per text.
Logits(image_features, text_features) ==
    [i \in 1..Len(image_features) |->
        [j \in 1..Len(text_features) |-> Logit(image_features[i], text_features[j])]]

AnyNaN(ls) == \E k \in 1..Len(ls) : ls[k].den2 = 0

\* x.softmax(dim=-1): entry j of row i is exp(x[i][j]) / SUM_k exp(x[i][k]).
Softmax(x) ==
    [i \in 1..Len(x) |->
        [j \in 1..Len(x[i]) |-> [num |-> x[i][j], den |-> x[i], nan |-> AnyNaN(x[i])]]]

\* --------------------------------------------------------------- responses

NoResponse == [status |-> 0, features |-> <<>>, probabilities |-> <<>>, labels |-> <<>>]

\* The framework's answer to an exception: 500, or 422 for a body that fails
\* validation.  It carries neither features nor probabilities.
ErrorResponse(code) == [NoResponse EXCEPT !.status = code]

\* {"features": x.tolist()}
FeaturesContent(x) == [NoResponse EXCEPT !.features = x]

Reverse(s) == [i \in 1..Len(s) |-> s[Len(s) + 1 - i]]

\* A faulty variant of SimilarityContent: the probabilities are returned ranked,
\* the labels as they came.
SimilarityContentRanked(text_probs, text_list) ==
    [NoResponse EXCEPT !.probabilities = Reverse(text_probs[1]), !.labels = text_list]

\* {"probabilities": text_probs[0].tolist(), "labels": text_input_obj.text_list}
SimilarityContent(text_probs, text_list) ==
    [NoResponse EXCEPT !.probabilities = text_probs[1], !.labels = text_list]

HasNaN(content) ==
    \/ \E i \in 1..Len(content.features) : IsNaNRow(content.features[i])
    \/ \E i \in 1..Len(content.probabilities) : content.probabilities[i].nan

\* What the framework makes of a handler's return value: the JSON encoder
\* refuses NaN (allow_nan=False), which ends in a 500.
Respond(content) ==
    IF HasNaN(content) THEN ErrorResponse(500) ELSE [content EXCEPT !.status = 200]

\* ------------------------------------------------------------------- state

VARIABLES
    started,        \* the module has been imported and the server accepts requests
    model,          \* global model: the loaded weights
    preprocess_val, \* global preprocess_val
    tokenizer,      \* global tokenizer
    device,         \* global device
    running,        \* the task that holds the event loop, or NoTask
    task            \* per task: the request, the handler's position and locals

vars == <<started, model, preprocess_val, tokenizer, device, running, task>>

globals == <<model, preprocess_val, tokenizer, device>>

NoCalls == [read |-> 0, tokenizer |-> 0, encode_image |-> 0, encode_text |-> 0]

Idle ==
    [pc |-> "idle", endpoint |-> "", upload |-> "", payload |-> <<>>,
     text_input_dict |-> [t |-> "none"], text_list |-> <<>>,
     image_data |-> "", image |-> "", processed_image |-> <<>>, text |-> <<>>,
     image_features |-> <<>>, text_features |-> <<>>, text_probs |-> <<>>,
     response |-> NoResponse, calls |-> NoCalls]

\* A request as it arrives.
Request(endpoint, upload, payload) ==
    [Idle EXCEPT !.endpoint = endpoint, !.upload = upload, !.payload = payload]

\* The handler has returned or raised: its locals are gone, the response stands.
Finished(tk, response) ==
    [Idle EXCEPT !.pc = "done", !.endpoint = tk.endpoint, !.upload = tk.upload,
                 !.payload = tk.payload, !.response = response, !.calls = tk.calls]

Init ==
    /\ started = FALSE
    /\ model = "unset"
    /\ preprocess_val = "unset"
    /\ tokenizer = "unset"
    /\ device = "unset"
    /\ running = NoTask
    /\ task = [t \in Tasks |-> Idle]

\* Lines 22-26, run once when the module is imported, before the server
\* accepts a request.
Startup ==
    /\ ~started
    /\ started' = TRUE
    /\ model' \in Weights
    /\ preprocess_val' = "image_transform"
    /\ tokenizer' \in Tokenizers
    /\ device' \in {"cuda", "cpu"}
    /\ UNCHANGED <<running, task>>

\* Task t is at `at` and holds the event loop.
At(t, at) == task[t].pc = at /\ running = t

\* A statement without await: t moves on and keeps the loop.
Step(t, tk) ==
    /\ task' = [task EXCEPT ![t] = tk]
    /\ UNCHANGED <<started, globals, running>>

\* The handler ends, by return or by exception, and the loop is free.
Finish(t, response) ==
    /\ task' = [task EXCEPT ![t] = Finished(task[t], response)]
    /\ running' = NoTask
    /\ UNCHANGED <<started, globals>>

\* The response is sent and the task is over.
Deliver(t) ==
    /\ task[t].pc = "done"
    /\ task' = [task EXCEPT ![t] = Idle]
    /\ UNCHANGED <<started, globals, running>>

\* ------------------------------------------------------------ encode_image

\* POST /encode_image/: the handler starts and stops at `await file.read()`.
StartEncodeImage(t) ==
    /\ started /\ running = NoTask /\ task[t].pc = "idle"
    /\ \E upload \in Uploads :
          task' = [task EXCEPT ![t] =
                      [Request("encode_image", upload, <<>>) EXCEPT !.pc = "img_await_read"]]
    /\ UNCHANGED <<started, globals, running>>

\* image_data = await file.read(): the loop resumes the handler.
ImgRead(t) ==
    /\ task[t].pc = "img_await_read" /\ running = NoTask
    /\ task' = [task EXCEPT ![t].image_data = task[t].upload,
                            ![t].calls.read = @ + 1,
                            ![t].pc = "img_open"]
    /\ running' = t
    /\ UNCHANGED <<started, globals>>

\* image = Image.open(io.BytesIO(image_data))
ImgOpen(t) ==
    /\ At(t, "img_open")
    /\ LET r == ImageOpen(task[t].image_data) IN
       IF r.ok THEN Step(t, [task[t] EXCEPT !.image = r.image, !.pc = "img_preprocess"])
       ELSE Finish(t, ErrorResponse(500))

\* processed_image = preprocess_val(image).unsqueeze(0)
ImgPreprocess(t) ==
    /\ At(t, "img_preprocess")
    /\ Step(t, [task[t] EXCEPT !.processed_image = PreprocessVal(task[t].image),
                               !.pc = "img_encode"])

\* A faulty variant of ImgEncode: the handler loads the checkpoint again, and gets
\* another one.
ImgEncodeReloads(t) ==
    /\ At(t, "img_encode")
    /\ model' = IF model = "w1" THEN "w2" ELSE "w1"
    /\ task' = [task EXCEPT ![t].image_features =
                               ModelEncodeImage(model', task[t].processed_image),
                            ![t].calls.encode_image = @ + 1,
                            ![t].pc = "img_normalize"]
    /\ UNCHANGED <<started, preprocess_val, tokenizer, device, running>>

\* image_features = model.encode_image(processed_image)
ImgEncode(t) ==
    /\ At(t, "img_encode")
    /\ Step(t, [task[t] EXCEPT !.image_features =
                                  ModelEncodeImage(model, task[t].processed_image),
                               !.calls.encode_image = @ + 1,
                               !.pc = "img_normalize"])

\* image_features = image_features / image_features.norm(dim=-1, keepdim=True)
ImgNormalize(t) ==
    /\ At(t, "img_normalize")
    /\ Step(t, [task[t] EXCEPT !.image_features = Normalize(@), !.pc = "img_return"])

\* return {"features": image_features.tolist()}
ImgReturn(t) ==
    /\ At(t, "img_return")
    /\ Finish(t, Respond(FeaturesContent(task[t].image_features)))

\* ------------------------------------------------------------- encode_text

\* POST /encode_text/: the framework parses the body and validates it against
\* TextInput; a body that fails gets a 422 and the handler is not called.
StartEncodeText(t) ==
    /\ started /\ running = NoTask /\ task[t].pc = "idle"
    /\ \E payload \in Payloads :
          LET req == Request("encode_text", "", payload)
              doc == JsonLoads(payload)
              obj == IF doc.ok THEN TextInput(doc.val) ELSE [ok |-> FALSE, text_list |-> <<>>]
          IN  IF obj.ok
              THEN /\ task' = [task EXCEPT ![t] =
                                  [req EXCEPT !.text_list = obj.text_list,
                                              !.pc = "txt_tokenize"]]
                   /\ running' = t
              ELSE /\ task' = [task EXCEPT ![t] = Finished(req, ErrorResponse(422))]
                   /\ running' = NoTask
    /\ UNCHANGED <<started, globals>>

\* text = tokenizer(text_input.text_list)
TxtTokenize(t) ==
    /\ At(t, "txt_tokenize")
    /\ LET r == Tokenizer(tokenizer, task[t].text_list) IN
       IF r.ok THEN Step(t, [task[t] EXCEPT !.text = r.text, !.calls.tokenizer = @ + 1,
                                            !.pc = "txt_encode"])
       ELSE Finish(t, ErrorResponse(500))

\* A faulty variant of TxtEncode: the call leaves the global model changed.
TxtEncodeChangesModel(t) ==
    /\ At(t, "txt_encode")
    /\ model' = "w2"
    /\ task' = [task EXCEPT ![t].text_features = ModelEncodeText(model, task[t].text),
                            ![t].calls.encode_text = @ + 1,
                            ![t].pc = "txt_normalize"]
    /\ UNCHANGED <<started, preprocess_val, tokenizer, device, running>>

\* text_features = model.encode_text(text)
TxtEncode(t) ==
    /\ At(t, "txt_encode")
    /\ Step(t, [task[t] EXCEPT !.text_features = ModelEncodeText(model, task[t].text),
                               !.calls.encode_text = @ + 1,
                               !.pc = "txt_normalize"])

\* text_features = text_features / text_features.norm(dim=-1, keepdim=True)
TxtNormalize(t) ==
    /\ At(t, "txt_normalize")
    /\ Step(t, [task[t] EXCEPT !.text_features = Normalize(@), !.pc = "txt_return"])

\* return {"features": text_features.tolist()}
TxtReturn(t) ==
    /\ At(t, "txt_return")
    /\ Finish(t, Respond(FeaturesContent(task[t].text_features)))

\* ------------------------------------------------------ compute_similarity

\* POST /compute_similarity/: text_input is a form field, an unparsed string.
StartSimilarity(t) ==
    /\ started /\ running = NoTask /\ task[t].pc = "idle"
    /\ \E upload \in Uploads, payload \in Payloads :
          task' = [task EXCEPT ![t] =
                      [Request("compute_similarity", upload, payload) EXCEPT !.pc = "sim_json"]]
    /\ running' = t
    /\ UNCHANGED <<started, globals>>

\* text_input_dict = json.loads(text_input)
SimJson(t) ==
    /\ At(t, "sim_json")
    /\ LET r == JsonLoads(task[t].payload) IN
       IF r.ok THEN Step(t, [task[t] EXCEPT !.text_input_dict = r.val, !.pc = "sim_validate"])
       ELSE Finish(t, ErrorResponse(500))

\* The handler reaches `await file.read()` and gives up the loop.
Suspend(t, tk) ==
    /\ task' = [task EXCEPT ![t] = tk]
    /\ running' = NoTask
    /\ UNCHANGED <<started, globals>>

\* A faulty variant of SimValidate: a text_input that fails validation is
\* taken as an empty list and the handler goes on.
SimValidateLenient(t) ==
    /\ At(t, "sim_validate")
    /\ LET r == TextInput(task[t].text_input_dict) IN
       Suspend(t, [task[t] EXCEPT !.text_list = r.text_list, !.pc = "sim_await_read"])

\* text_input_obj = TextInput(**text_input_dict), then on to `await file.read()`.
SimValidate(t) ==
    /\ At(t, "sim_validate")
    /\ LET r == TextInput(task[t].text_input_dict) IN
       IF r.ok
       THEN Suspend(t, [task[t] EXCEPT !.text_list = r.text_list, !.pc = "sim_await_read"])
       ELSE Finish(t, ErrorResponse(500))

\* image_data = await file.read(): the loop resumes the handler.
SimRead(t) ==
    /\ task[t].pc = "sim_await_read" /\ running = NoTask
    /\ task' = [task EXCEPT ![t].image_data = task[t].upload,
                            ![t].calls.read = @ + 1,
                            ![t].pc = "sim_open"]
    /\ running' = t
    /\ UNCHANGED <<started, globals>>

\* image = Image.open(io.BytesIO(image_data))
SimOpen(t) ==
    /\ At(t, "sim_open")
    /\ LET r == ImageOpen(task[t].image_data) IN
       IF r.ok THEN Step(t, [task[t] EXCEPT !.image = r.image, !.pc = "sim_preprocess"])
       ELSE Finish(t, ErrorResponse(500))

\* processed_image = preprocess_val(image).unsqueeze(0)
SimPreprocess(t) ==
    /\ At(t, "sim_preprocess")
    /\ Step(t, [task[t] EXCEPT !.processed_image = PreprocessVal(task[t].image),
                               !.pc = "sim_tokenize"])

\* text = tokenizer(text_input_obj.text_list)
SimTokenize(t) ==
    /\ At(t, "sim_tokenize")
    /\ LET r == Tokenizer(tokenizer, task[t].text_list) IN
       IF r.ok THEN Step(t, [task[t] EXCEPT !.text = r.text, !.calls.tokenizer = @ + 1,
                                            !.pc = "sim_encode"])
       ELSE Finish(t, ErrorResponse(500))

\* A faulty variant of SimEncode: the model runs in a worker thread and the
\* handler awaits it, which gives up the loop in the middle of the handler.
SimEncodeAwaited(t) ==
    /\ At(t, "sim_encode")
    /\ task' = [task EXCEPT ![t].image_features =
                               ModelEncodeImage(model, task[t].processed_image),
                            ![t].text_features = ModelEncodeText(model, task[t].text),
                            ![t].calls.encode_image = @ + 1,
                            ![t].calls.encode_text = @ + 1,
                            ![t].pc = "sim_normalize"]
    /\ running' = NoTask
    /\ UNCHANGED <<started, globals>>

\* image_features = model.encode_image(processed_image)
\* text_features = model.encode_text(text)
SimEncode(t) ==
    /\ At(t, "sim_encode")
    /\ Step(t, [task[t] EXCEPT !.image_features =
                                  ModelEncodeImage(model, task[t].processed_image),
                               !.text_features = ModelEncodeText(model, task[t].text),
                               !.calls.encode_image = @ + 1,
                               !.calls.encode_text = @ + 1,
                               !.pc = "sim_normalize"])

\* image_features = image_features / image_features.norm(dim=-1, keepdim=True)
\* text_features = text_features / text_features.norm(dim=-1, keepdim=True)
SimNormalize(t) ==
    /\ At(t, "sim_normalize")
    /\ Step(t, [task[t] EXCEPT !.image_features = Normalize(@),
                               !.text_features = Normalize(@),
                               !.pc = "sim_probs"])

\* text_probs = (100.0 * image_features @ text_features.T).softmax(dim=-1)
SimProbs(t) ==
    /\ At(t, "sim_probs")
    /\ Step(t, [task[t] EXCEPT !.text_probs =
                                  Softmax(Logits(task[t].image_features,
                                                 task[t].text_features)),
                               !.pc = "sim_return"])

\* return {"probabilities": ..., "labels": ...}
SimReturn(t) ==
    /\ At(t, "sim_return")
    /\ Finish(t, Respond(SimilarityContent(task[t].text_probs, task[t].text_list)))

\* ------------------------------------------------------------ the program

Next ==
    \/ Startup
    \/ \E t \in Tasks :
          \/ StartEncodeImage(t) \/ ImgRead(t) \/ ImgOpen(t) \/ ImgPreprocess(t)
          \/ ImgEncode(t) \/ ImgNormalize(t) \/ ImgReturn(t)
          \/ StartEncodeText(t) \/ TxtTokenize(t) \/ TxtEncode(t)
          \/ TxtNormalize(t) \/ TxtReturn(t)
          \/ StartSimilarity(t) \/ SimJson(t) \/ SimValidate(t) \/ SimRead(t)
          \/ SimOpen(t) \/ SimPreprocess(t) \/ SimTokenize(t) \/ SimEncode(t)
          \/ SimNormalize(t) \/ SimProbs(t) \/ SimReturn(t)
          \/ Deliver(t)

Spec == Init /\ [][Next]_vars

\* ------------------------------------------------------------- properties

Done(t) == task[t].pc = "done"

\* The request of task t ended in a success response.
Succeeded(t) == Done(t) /\ task[t].response.status = 200

\* The handler of t is suspended at `await file.read()`, or is not running at all.
Resting(t) == task[t].pc \in {"idle", "done", "img_await_read", "sim_await_read"}

\* The text_list a payload was written from, when it was written from one.
WellFormed(payload) == \E l \in TextLists : payload = Stringify(l)
RequestedList(payload) == CHOOSE l \in TextLists : payload = Stringify(l)

IsImage(upload) == upload \in {"png_a", "png_b"}

\* The normalized embedding the loaded model gives an upload or a string.
ImageVector(upload) ==
    Normalize(ModelEncodeImage(model, PreprocessVal(ImageOpen(upload).image)))[1]
TextVector(s) == Normalize(ModelEncodeText(model, <<TokenIds(s)>>))[1]

Range(s) == {s[i] : i \in DOMAIN s}
BagOf(s) == [x \in Range(s) |-> Cardinality({i \in DOMAIN s : s[i] = x})]

\* SUM_j exp(num_j) / SUM_k exp(den_k) = 1: the entries share one denominator
\* and their numerators make up exactly its terms; an empty list sums to 0.
SumsToOne(ps) ==
    /\ Len(ps) > 0
    /\ \A i \in 1..Len(ps) : ~ps[i].nan /\ ps[i].den = ps[1].den
    /\ BagOf([i \in 1..Len(ps) |-> ps[i].num]) = BagOf(ps[1].den)

\* C1: every vector in "features" of a successful encode_image or encode_text
\* response has L2 norm 1.
C1_FeaturesUnitNorm ==
    \A t \in Tasks :
        Succeeded(t) /\ task[t].endpoint \in {"encode_image", "encode_text"}
        => \A i \in 1..Len(task[t].response.features) : IsUnit(task[t].response.features[i])

C1_Witness ==
    \E t, u \in Tasks :
        /\ Succeeded(t) /\ task[t].endpoint = "encode_image"
        /\ Len(task[t].response.features) = 1
        /\ Succeeded(u) /\ task[u].endpoint = "encode_text"
        /\ Len(task[u].response.features) = 2
        /\ task[u].response.features[1] # task[u].response.features[2]

C3_MalformedYieldsError ==
    \A t \in Tasks :
        /\ Done(t)
        /\ \/ task[t].endpoint \in {"encode_image", "compute_similarity"}
              /\ ~IsImage(task[t].upload)
           \/ task[t].endpoint \in {"encode_text", "compute_similarity"}
              /\ task[t].payload \in Malformed
        => /\ task[t].response.status \in {422, 500}
           /\ task[t].response.features = <<>>
           /\ task[t].response.probabilities = <<>>

C3_Witness ==
    \E t, u \in Tasks :
        /\ Done(t) /\ task[t].endpoint = "compute_similarity"
        /\ task[t].payload = ItemNotAString /\ IsImage(task[t].upload)
        /\ task[t].response.status = 500
        /\ Done(u) /\ task[u].endpoint = "encode_image"
        /\ task[u].upload = "not_an_image" /\ task[u].response.status = 500

\* The row went through normalization: it has norm 1, or is NaN (it was 0).
Normalized(row) == IsUnit(row) \/ IsNaNRow(row)

\* C4: in compute_similarity, wherever the image-text product is about to be
\* computed or has been computed, the image features and the text features
\* are the normalized ones.
C4_NormalizedBeforeComparison ==
    \A t \in Tasks :
        task[t].pc \in {"sim_probs", "sim_return"}
        => /\ Len(task[t].image_features) = 1
           /\ \A i \in 1..Len(task[t].image_features) : Normalized(task[t].image_features[i])
           /\ \A j \in 1..Len(task[t].text_features) : Normalized(task[t].text_features[j])
           /\ task[t].pc = "sim_return"
              => \A j \in 1..Len(task[t].text_features) :
                    task[t].text_probs[1][j].num =
                        Logit(task[t].image_features[1], task[t].text_features[j])

C4_Witness ==
    \E t \in Tasks :
        /\ task[t].pc = "sim_return"
        /\ Len(task[t].text_features) = 2
        /\ IsUnit(task[t].image_features[1])
        /\ IsUnit(task[t].text_features[1]) /\ IsUnit(task[t].text_features[2])

\* C5: in a successful compute_similarity response, "labels" is the request's
\* text_list in order, "probabilities" is as long as "labels", and the i-th
\* probability is the one of the i-th label.
C5_LabelsMatchProbabilities ==
    \A t \in Tasks :
        Succeeded(t) /\ task[t].endpoint = "compute_similarity"
        => LET r == task[t].response IN
           /\ WellFormed(task[t].payload)
           /\ r.labels = RequestedList(task[t].payload)
           /\ Len(r.probabilities) = Len(r.labels)
           /\ \A i \in 1..Len(r.labels) :
                 r.probabilities[i].num =
                     Logit(ImageVector(task[t].upload), TextVector(r.labels[i]))

C5_Witness ==
    \E t \in Tasks :
        /\ Succeeded(t) /\ task[t].endpoint = "compute_similarity"
        /\ task[t].response.labels = <<"b", "a">>
        /\ Len(task[t].response.probabilities) = 2
        /\ task[t].response.probabilities[1].num # task[t].response.probabilities[2].num

AllLoaded ==
    /\ model \in Weights
    /\ preprocess_val = "image_transform"
    /\ tokenizer \in Tokenizers
    /\ device \in {"cuda", "cpu"}

\* C6: model, preprocess_val, tokenizer and device are assigned before any
\* request is served, and no step of any handler, ending in success or in an
\* error, assigns any of them again.
C6_GlobalsLoadedOnce ==
    [][/\ started => started' /\ globals' = globals
       /\ (\E t \in Tasks : task'[t].pc # "idle") => started /\ AllLoaded]_vars

C6_Witness ==
    \E t, u \in Tasks :
        /\ AllLoaded
        /\ Succeeded(t)
        /\ Done(u) /\ task[u].response.status = 500

SameRequest(t, u) ==
    /\ task[t].endpoint = task[u].endpoint
    /\ task[t].upload = task[u].upload
    /\ task[t].payload = task[u].payload

\* C7: two requests with the same endpoint and inputs get the same response,
\* whatever was served before and between them.
C7_SameRequestSameResponse ==
    \A t, u \in Tasks :
        Done(t) /\ Done(u) /\ SameRequest(t, u) => task[t].response = task[u].response

C7_Witness ==
    \E t, u \in Tasks :
        /\ t # u /\ Succeeded(t) /\ Succeeded(u) /\ SameRequest(t, u)
        /\ task[t].endpoint = "compute_similarity"
        /\ Len(task[t].response.labels) = 2

\* C8: "features" of encode_text holds one vector per string of text_list, in
\* order, and "features" of encode_image holds one vector, that of the upload.
C8_OneVectorPerInput ==
    \A t \in Tasks :
        Succeeded(t) =>
        LET f == task[t].response.features IN
        /\ task[t].endpoint = "encode_text" =>
              /\ WellFormed(task[t].payload)
              /\ Len(f) = Len(RequestedList(task[t].payload))
              /\ \A i \in 1..Len(f) : f[i] = TextVector(RequestedList(task[t].payload)[i])
        /\ task[t].endpoint = "encode_image" =>
              /\ Len(f) = 1
              /\ f[1] = ImageVector(task[t].upload)

C8_Witness ==
    \E t, u \in Tasks :
        /\ Succeeded(t) /\ task[t].endpoint = "encode_text"
        /\ RequestedList(task[t].payload) = <<"a", "b">>
        /\ Succeeded(u) /\ task[u].endpoint = "encode_image"

\* C9: the only place a handler gives up the event loop is `await file.read()`,
\* so no two handlers are ever both between that point and their return: the
\* preprocessing, model call and normalization of one request run with every
\* other handler suspended at its read, not started, or finished.
C9_InferenceNeverInterleaves ==
    /\ \A t, u \in Tasks : t # u => Resting(t) \/ Resting(u)
    /\ running = NoTask => \A t \in Tasks : Resting(t)

C9_Witness ==
    \E t, u \in Tasks :
        /\ task[t].pc = "sim_normalize"
        /\ task[u].pc = "img_await_read"

CallsOf(t) == task[t].calls

\* C10: compute_similarity parses and validates text_input before it reads the
\* file, decodes the image or calls the tokenizer or the model; a request whose
\* text_input fails never calls them, and a request that succeeds has called
\* each encoder exactly once.
C10_ValidatedBeforeInference ==
    \A t \in Tasks :
        task[t].endpoint = "compute_similarity" =>
        /\ task[t].pc \in {"sim_json", "sim_validate"} =>
              CallsOf(t) = NoCalls /\ task[t].image_data = "" /\ task[t].image = ""
        /\ CallsOf(t) # NoCalls => WellFormed(task[t].payload)
        /\ Succeeded(t) =>
              /\ CallsOf(t).encode_image = 1
              /\ CallsOf(t).encode_text = 1
              /\ CallsOf(t).tokenizer = 1
              /\ CallsOf(t).read = 1

C10_Witness ==
    \E t, u \in Tasks :
        /\ Done(t) /\ task[t].endpoint = "compute_similarity"
        /\ task[t].payload = FieldNotAList /\ IsImage(task[t].upload)
        /\ task[t].response.status = 500 /\ CallsOf(t) = NoCalls
        /\ Succeeded(u) /\ task[u].endpoint = "compute_similarity"

====
